---- MODULE Spec2Model ----
(***************************************************************************)
(* A model of the chat-transcript engine of binarybaron/mai:               *)
(*   chat_parser.py   ChatParser.parse_line / parse_file /                 *)
(*                    filter_system_messages                               *)
(*   week_grouper.py  WeekGrouper.get_week_key / get_week_range /          *)
(*                    group_by_week / extract_conversations                *)
(* Each component has its own specification (SpecWeek, SpecLine,           *)
(* SpecParse, SpecFilter, SpecGroup, SpecExtract); the variables of the    *)
(* components a specification does not run stay at their idle values.      *)
(*                                                                         *)
(* Text is a sequence of one-character strings.  Characters outside ASCII  *)
(* are spelled by name: "LRM" is U+200E LEFT-TO-RIGHT MARK, "u-uml" and    *)
(* "o-uml" are the German umlauts of the system-notice phrases.            *)
(***************************************************************************)
EXTENDS Integers, Sequences, FiniteSets, TLC

VARIABLES
    \* shared by the operations: the running operation's position, its list
    \* named `messages`, and how many items its for-loop has consumed
    pc,
    messages,       \* List[Message]
    pos,
    \* WeekGrouper.get_week_key / get_week_range on one datetime
    dt,             \* the argument: a datetime record
    week_key,       \* Optional: get_week_key(dt)
    week_range,     \* Optional: get_week_range(dt) = <<week_start, week_end>>
    range_keys,     \* Optional: <<get_week_key(week_start), get_week_key(week_end)>>
    \* WeekGrouper.extract_conversations
    context_size,   \* the argument
    i,              \* the loop index of enumerate(messages), 0-based
    used_indices,   \* set of 0-based indices
    conversations,  \* List[List[Message]]: the emitted context windows
    windows,        \* per emitted window, in order: the triggering index i and the
                    \* locals start_idx, end_idx of that iteration
    \* ChatParser.parse_line on one line
    line,           \* the argument
    parsed,         \* Optional: parse_line's return value (itself None or a Message)
    \* ChatParser.parse_file: here `messages` holds references into heap
    lines,          \* the lines of the file, without their line breaks
    current_message,\* Optional reference to the open Message
    heap,           \* the Message objects created so far; a reference is an index
    \* ChatParser.filter_system_messages
    filtered,       \* the list being built
    first_call,     \* Optional: <<argument, result>> of the first call, once the
                    \* filter is called again on that result
    \* WeekGrouper.group_by_week / get_weekly_summaries
    weeks,          \* dict: week key -> List[Message]
    weeks_data,     \* dict: week key -> summary record
    \* ArchiveProcessor.process_all_archives and main
    zip_files,      \* the archives found, in the order glob lists them
    standalone_chat,\* Optional: the _chat.txt of the data directory
    all_messages,   \* the combined list
    zip_index       \* the number of archives processed

weekVars == <<dt, week_key, week_range, range_keys>>
extractVars == <<context_size, i, used_indices, conversations, windows>>
lineVars == <<line, parsed>>
parseVars == <<lines, current_message, heap>>
filterVars == <<filtered, first_call>>
groupVars == <<weeks, weeks_data>>
pipelineVars == <<zip_files, standalone_chat, all_messages, zip_index>>
vars == <<pc, messages, pos, weekVars, extractVars, lineVars, parseVars, filterVars,
          groupVars, pipelineVars>>

\* what each operation leaves alone
notWeek == <<messages, pos, extractVars, lineVars, parseVars, filterVars, groupVars,
            pipelineVars>>
notExtract == <<pos, weekVars, lineVars, parseVars, filterVars, groupVars, pipelineVars>>
notLine == <<messages, pos, weekVars, extractVars, parseVars, filterVars, groupVars,
            pipelineVars>>
notParse == <<weekVars, extractVars, lineVars, filterVars, groupVars, pipelineVars>>
notFilter == <<weekVars, extractVars, lineVars, parseVars, groupVars, pipelineVars>>
notGroup == <<weekVars, extractVars, lineVars, parseVars, filterVars, pipelineVars>>
notPipeline == <<weekVars, extractVars, lineVars, parseVars, filterVars>>

\* Python's None and a present value.
None == <<>>
Some(v) == <<v>>
Val(o) == o[1]

Max(a, b) == IF a >= b THEN a ELSE b
Min(a, b) == IF a <= b THEN a ELSE b

(***************************************************************************)
(* Decimal text.                                                           *)
(***************************************************************************)
Digits == <<"0", "1", "2", "3", "4", "5", "6", "7", "8", "9">>
DigitChars == {Digits[k] : k \in 1..10}
DigitVal(c) == (CHOOSE k \in 1..10 : Digits[k] = c) - 1

\* int(s) for a non-empty run of decimal digits
RECURSIVE ParseInt(_)
ParseInt(s) ==
    IF Len(s) = 0 THEN 0
    ELSE 10 * ParseInt(SubSeq(s, 1, Len(s) - 1)) + DigitVal(s[Len(s)])

\* str(n) for n >= 0
RECURSIVE IntToStr(_)
IntToStr(n) ==
    IF n < 10 THEN <<Digits[n + 1]>>
    ELSE Append(IntToStr(n \div 10), Digits[(n % 10) + 1])

\* f"{n:02d}" for n >= 0: zero-padded to at least two digits
Fmt02d(n) == IF n < 10 THEN <<"0">> \o IntToStr(n) ELSE IntToStr(n)

(***************************************************************************)
(* datetime: the proleptic Gregorian calendar of Python's datetime module. *)
(***************************************************************************)
IsLeap(y) == (y % 4 = 0) /\ ((y % 100 # 0) \/ (y % 400 = 0))

DaysInMonth(y, m) ==
    IF m = 2 THEN (IF IsLeap(y) THEN 29 ELSE 28)
    ELSE IF m \in {4, 6, 9, 11} THEN 30 ELSE 31

DaysBeforeYear(y) ==
    (y - 1) * 365 + ((y - 1) \div 4) - ((y - 1) \div 100) + ((y - 1) \div 400)

RECURSIVE DaysBeforeMonth(_, _)
DaysBeforeMonth(y, m) ==
    IF m = 1 THEN 0 ELSE DaysBeforeMonth(y, m - 1) + DaysInMonth(y, m - 1)

\* date.toordinal(): 0001-01-01 is day 1
ToOrdinal(y, m, d) == DaysBeforeYear(y) + DaysBeforeMonth(y, m) + d

\* date.fromordinal(n)
FromOrdinal(n) ==
    LET y == CHOOSE yy \in (n \div 366)..((n \div 365) + 1) :
                 DaysBeforeYear(yy) < n /\ n <= DaysBeforeYear(yy + 1)
        r == n - DaysBeforeYear(y)
        m == CHOOSE mm \in 1..12 :
                 DaysBeforeMonth(y, mm) < r /\ r <= DaysBeforeMonth(y, mm) + DaysInMonth(y, mm)
    IN  [year |-> y, month |-> m, day |-> r - DaysBeforeMonth(y, m)]

\* date.weekday(): Monday is 0
Weekday(ord) == (ord + 6) % 7

DateTime(y, mo, d, h, mi, s) ==
    [year |-> y, month |-> mo, day |-> d, hour |-> h, minute |-> mi, second |-> s]

DtOrdinal(t) == ToOrdinal(t.year, t.month, t.day)
DtSeconds(t) == t.hour * 3600 + t.minute * 60 + t.second

\* datetime comparison a <= b
DtLeq(a, b) ==
    \/ DtOrdinal(a) < DtOrdinal(b)
    \/ DtOrdinal(a) = DtOrdinal(b) /\ DtSeconds(a) <= DtSeconds(b)

\* datetime + timedelta(days, hours, minutes, seconds)
AddTimedelta(t, days, hours, minutes, seconds) ==
    LET total == DtSeconds(t) + hours * 3600 + minutes * 60 + seconds
        date  == FromOrdinal(DtOrdinal(t) + days + (total \div 86400))
        secs  == total % 86400
    IN  DateTime(date.year, date.month, date.day,
                 secs \div 3600, (secs % 3600) \div 60, secs % 60)

\* datetime._isoweek1monday(year): ordinal of the Monday starting ISO week 1
IsoWeek1Monday(y) ==
    LET firstday == ToOrdinal(y, 1, 1)
        firstweekday == Weekday(firstday)
        week1monday == firstday - firstweekday
    IN  IF firstweekday > 3 THEN week1monday + 7 ELSE week1monday

\* date.isocalendar(): <<ISO year, ISO week, ISO weekday>>
IsoCalendar(t) ==
    LET today == DtOrdinal(t)
        w0 == (today - IsoWeek1Monday(t.year)) \div 7
        d0 == (today - IsoWeek1Monday(t.year)) % 7
    IN  IF w0 < 0
        THEN LET wm == IsoWeek1Monday(t.year - 1)
             IN  <<t.year - 1, ((today - wm) \div 7) + 1, ((today - wm) % 7) + 1>>
        ELSE IF w0 >= 52 /\ today >= IsoWeek1Monday(t.year + 1)
        THEN <<t.year + 1, 1, d0 + 1>>
        ELSE <<t.year, w0 + 1, d0 + 1>>

\* _strptime._calc_julian_from_U_or_W(year, week_of_year, day_of_week, True)
CalcJulianFromW(y, week_of_year, day_of_week) ==
    LET first_weekday == Weekday(ToOrdinal(y, 1, 1))
        week_0_length == (7 - first_weekday) % 7
    IN  IF week_of_year = 0
        THEN 1 + day_of_week - first_weekday
        ELSE 1 + week_0_length + 7 * (week_of_year - 1) + day_of_week

\* datetime.strptime(s, "%Y-W%W-%w") for s = "YYYY-Wnn-d": %W counts weeks
\* from the first Monday of the calendar year (the days before it are week 0)
StrptimeYearWeekDay(s) ==
    LET y  == ParseInt(SubSeq(s, 1, 4))
        wk == ParseInt(SubSeq(s, 7, 8))
        w  == ParseInt(SubSeq(s, 10, 10))
        weekday == IF w = 0 THEN 6 ELSE w - 1
        julian0 == CalcJulianFromW(y, wk, weekday)
        yr == IF julian0 <= 0 THEN y - 1 ELSE y
        julian == IF julian0 <= 0
                  THEN julian0 + (IF IsLeap(y - 1) THEN 366 ELSE 365)
                  ELSE julian0
        date == FromOrdinal((julian - 1) + ToOrdinal(yr, 1, 1))
    IN  DateTime(date.year, date.month, date.day, 0, 0, 0)

(***************************************************************************)
(* WeekGrouper.get_week_key, get_week_range                                *)
(***************************************************************************)
\* f"{year}-W{week:02d}"
get_week_key(t) ==
    LET iso == IsoCalendar(t)
    IN  IntToStr(iso[1]) \o <<"-", "W">> \o Fmt02d(iso[2])

get_week_range(t) ==
    LET iso == IsoCalendar(t)
        week_start == StrptimeYearWeekDay(
                          IntToStr(iso[1]) \o <<"-", "W">> \o Fmt02d(iso[2]) \o <<"-", "1">>)
        week_end == AddTimedelta(week_start, 6, 23, 59, 59)
    IN  <<week_start, week_end>>

\* The timestamps the week calculator is run on.
FirstYear == 2024
NumYears == 2
SampleTimes == {<<0, 0, 0>>, <<5, 47, 3>>, <<23, 59, 59>>}
SampleDateTimes ==
    {DateTime(y, m, d, t[1], t[2], t[3]) :
        y \in FirstYear..(FirstYear + NumYears), m \in 1..12, d \in 1..31, t \in SampleTimes}

BaseDateTime == DateTime(2024, 1, 26, 5, 47, 3)

WeekIdle ==
    /\ dt = BaseDateTime
    /\ week_key = None
    /\ week_range = None
    /\ range_keys = None

ExtractIdle ==
    /\ context_size = 0
    /\ i = 0
    /\ used_indices = {}
    /\ conversations = <<>>
    /\ windows = <<>>

LineIdle ==
    /\ line = <<>>
    /\ parsed = None

ParseIdle ==
    /\ lines = <<>>
    /\ current_message = None
    /\ heap = <<>>

FilterIdle ==
    /\ filtered = <<>>
    /\ first_call = None

GroupIdle ==
    /\ weeks = <<>>
    /\ weeks_data = <<>>

PipelineIdle ==
    /\ zip_files = <<>>
    /\ standalone_chat = None
    /\ all_messages = <<>>
    /\ zip_index = 0

WeekInit ==
    /\ pc = "week"
    /\ messages = <<>>
    /\ pos = 0
    /\ ExtractIdle /\ LineIdle /\ ParseIdle /\ FilterIdle /\ GroupIdle /\ PipelineIdle
    /\ dt \in {t \in SampleDateTimes : t.day <= DaysInMonth(t.year, t.month)}
    /\ week_key = None
    /\ week_range = None
    /\ range_keys = None

GetWeekKey ==
    /\ pc = "week"
    /\ week_key = None
    /\ week_key' = Some(get_week_key(dt))
    /\ UNCHANGED <<pc, dt, week_range, range_keys, notWeek>>

GetWeekRange ==
    /\ pc = "week"
    /\ week_range = None
    /\ week_range' = Some(get_week_range(dt))
    /\ UNCHANGED <<pc, dt, week_key, range_keys, notWeek>>

\* get_week_key re-computed from the returned week_start and week_end
GetRangeKeys ==
    /\ pc = "week"
    /\ week_range # None
    /\ range_keys = None
    /\ range_keys' = Some(<<get_week_key(Val(week_range)[1]), get_week_key(Val(week_range)[2])>>)
    /\ UNCHANGED <<pc, dt, week_key, week_range, notWeek>>

WeekNext == GetWeekKey \/ GetWeekRange \/ GetRangeKeys

SpecWeek == WeekInit /\ [][WeekNext]_vars

(***************************************************************************)
(* Messages                                                                *)
(***************************************************************************)
\* config.TARGET_USER = "mai ly"
TARGET_USER == <<"m", "a", "i", " ", "l", "y">>
OtherUser == <<"a", "l", "i", "c", "e">>

Message(timestamp, user, text, raw_line) ==
    [timestamp |-> timestamp, user |-> user, text |-> text, raw_line |-> raw_line]

\* Python's s[a:b] for 0 <= a, b <= len(s)
Slice(s, a, b) == SubSeq(s, a + 1, b)

\* All sequences over S of length 0..n
RECURSIVE SeqsUpTo(_, _)
SeqsUpTo(S, n) ==
    IF n = 0 THEN {<<>>}
    ELSE LET shorter == SeqsUpTo(S, n - 1)
         IN  shorter \cup {Append(s, x) : s \in {t \in shorter : Len(t) = n - 1}, x \in S}

(***************************************************************************)
(* WeekGrouper.extract_context_window, extract_conversations               *)
(***************************************************************************)
\* a plausible slip: the slice stops at target_index + context_size
extract_context_window_short(msgs, target_index, c) ==
    LET start == Max(0, target_index - c)
        end == Min(Len(msgs), target_index + c)
    IN  Slice(msgs, start, end)

extract_context_window(msgs, target_index, c) ==
    LET start == Max(0, target_index - c)
        end == Min(Len(msgs), target_index + c + 1)
    IN  Slice(msgs, start, end)

\* start_idx, end_idx of the iteration at index k
start_idx(k, c) == Max(0, k - c)
end_idx(msgs, k, c) == Min(Len(msgs), k + c + 1)

\* range(start_idx, end_idx)
Range(a, b) == a..(b - 1)

\* a plausible slip: the marked range is one index longer than the window
mark_used_one_more(used, msgs, k, c) ==
    used \cup Range(start_idx(k, c), end_idx(msgs, k, c) + 1)

\* for idx in range(start_idx, end_idx): used_indices.add(idx)
mark_used(used, msgs, k, c) ==
    used \cup Range(start_idx(k, c), end_idx(msgs, k, c))

\* The week's message lists extraction is run on: the k-th message of a list
\* is sent k seconds into the minute by the target user or by someone else.
MaxMsgs == 6
MaxContext == 3
ExtractMessage(k, user) ==
    Message(DateTime(2024, 1, 26, 5, 47, k), user, <<"m", Digits[k + 1]>>,
            <<"r", Digits[k + 1]>>)
ExtractInputs ==
    {[k \in 1..Len(us) |-> ExtractMessage(k - 1, us[k])] :
        us \in SeqsUpTo({TARGET_USER, OtherUser}, MaxMsgs)}

ExtractInit ==
    /\ pc = "extract"
    /\ messages \in ExtractInputs
    /\ context_size \in 0..MaxContext
    /\ i = 0
    /\ used_indices = {}
    /\ conversations = <<>>
    /\ windows = <<>>
    /\ pos = 0
    /\ WeekIdle /\ LineIdle /\ ParseIdle /\ FilterIdle /\ GroupIdle /\ PipelineIdle

\* a plausible slip: conversations.insert(0, window) for conversations.append
EmitWindowPrepending ==
    /\ pc = "extract"
    /\ i < Len(messages)
    /\ messages[i + 1].user = TARGET_USER
    /\ i \notin used_indices
    /\ conversations' = <<extract_context_window(messages, i, context_size)>> \o conversations
    /\ used_indices' = mark_used(used_indices, messages, i, context_size)
    /\ windows' = Append(windows, [i |-> i, start_idx |-> start_idx(i, context_size),
                                   end_idx |-> end_idx(messages, i, context_size)])
    /\ i' = i + 1
    /\ UNCHANGED <<pc, messages, context_size, notExtract>>

\* the loop body when its condition holds
EmitWindow ==
    /\ pc = "extract"
    /\ i < Len(messages)
    /\ messages[i + 1].user = TARGET_USER
    /\ i \notin used_indices
    /\ conversations' = Append(conversations, extract_context_window(messages, i, context_size))
    /\ used_indices' = mark_used(used_indices, messages, i, context_size)
    /\ windows' = Append(windows, [i |-> i, start_idx |-> start_idx(i, context_size),
                                   end_idx |-> end_idx(messages, i, context_size)])
    /\ i' = i + 1
    /\ UNCHANGED <<pc, messages, context_size, notExtract>>

\* a plausible slip: a consumed target-user message still marks its own reach
SkipMessageExtending ==
    /\ pc = "extract"
    /\ i < Len(messages)
    /\ ~(messages[i + 1].user = TARGET_USER /\ i \notin used_indices)
    /\ used_indices' = IF messages[i + 1].user = TARGET_USER
                       THEN mark_used(used_indices, messages, i, context_size)
                       ELSE used_indices
    /\ i' = i + 1
    /\ UNCHANGED <<pc, messages, context_size, conversations, windows, notExtract>>

\* the loop body when its condition fails
SkipMessage ==
    /\ pc = "extract"
    /\ i < Len(messages)
    /\ ~(messages[i + 1].user = TARGET_USER /\ i \notin used_indices)
    /\ i' = i + 1
    /\ UNCHANGED <<pc, messages, context_size, used_indices, conversations, windows, notExtract>>

\* return conversations
ExtractReturn ==
    /\ pc = "extract"
    /\ i = Len(messages)
    /\ pc' = "extract_done"
    /\ UNCHANGED <<messages, extractVars, notExtract>>

ExtractNext == EmitWindow \/ SkipMessage \/ ExtractReturn

SpecExtract == ExtractInit /\ [][ExtractNext]_vars

(***************************************************************************)
(* ChatParser.MESSAGE_PATTERN and parse_line                               *)
(*   [\[]?(\d{2}\.\d{2}\.\d{2}),\s*(\d{2}:\d{2}:\d{2})[\]]?\s*([^:]+):\s*(.+) *)
(* matched with re.match: anchored at the start of the line, greedy, with  *)
(* backtracking.                                                           *)
(***************************************************************************)
\* the characters of the model's alphabet that \s matches and str.strip() removes
WS == {" ", "\t"}

\* \d{2}<sep>\d{2}<sep>\d{2} at s[p+1..p+8]
MatchesTriple(s, p, sep) ==
    /\ Len(s) >= p + 8
    /\ \A k \in {1, 2, 4, 5, 7, 8} : s[p + k] \in DigitChars
    /\ s[p + 3] = sep
    /\ s[p + 6] = sep

\* the length of the longest run of whitespace starting at s[from]
RECURSIVE CountWS(_, _)
CountWS(s, from) ==
    IF from <= Len(s) /\ s[from] \in WS THEN 1 + CountWS(s, from + 1) ELSE 0

\* the first k >= from with s[k] = c, or 0
RECURSIVE FirstIndexOf(_, _, _)
FirstIndexOf(s, c, from) ==
    IF from > Len(s) THEN 0
    ELSE IF s[from] = c THEN from
    ELSE FirstIndexOf(s, c, from + 1)

\* [\]]?\s*([^:]+) matched against all of seg, the text between the time token
\* and the first colon after it: the bracket and the whitespace are taken
\* greedily and given back only as far as the group needs one character
UserGroup(seg) ==
    LET b == IF seg[1] = "]" THEN 1 ELSE 0
        w == CountWS(seg, b + 1)
    IN  IF b + w < Len(seg) THEN SubSeq(seg, b + w + 1, Len(seg))
        ELSE SubSeq(seg, Len(seg), Len(seg))

\* \s*(.+) matched against rest, the text after that colon
TextGroup(rest) ==
    LET w == CountWS(rest, 1)
    IN  IF w < Len(rest) THEN SubSeq(rest, w + 1, Len(rest))
        ELSE SubSeq(rest, Len(rest), Len(rest))

\* MESSAGE_PATTERN.match(line): None, or the groups
\* <<date_str, time_str, user, text>>
PatternMatch(s) ==
    LET b == IF Len(s) >= 1 /\ s[1] = "[" THEN 1 ELSE 0
        comma == b + 9
        t == comma + CountWS(s, comma + 1)
        colon == FirstIndexOf(s, ":", t + 9)
    IN  IF ~MatchesTriple(s, b, ".") THEN None
        ELSE IF ~(Len(s) >= comma /\ s[comma] = ",") THEN None
        ELSE IF ~MatchesTriple(s, t, ":") THEN None
        ELSE IF colon = 0 \/ colon = t + 9 \/ colon = Len(s) THEN None
        ELSE Some(<<SubSeq(s, b + 1, b + 8), SubSeq(s, t + 1, t + 8),
                    UserGroup(SubSeq(s, t + 9, colon - 1)),
                    TextGroup(SubSeq(s, colon + 1, Len(s)))>>)

\* strptime's %y: 00..68 are 2000..2068, 69..99 are 1969..1999
CenturyOf(yy) == IF yy <= 68 THEN 2000 + yy ELSE 1900 + yy

\* a plausible slip: the tokens the pattern matched are taken as a date and
\* time without the calendar check
Strptime_unchecked(date_str, time_str) ==
    Some(DateTime(CenturyOf(ParseInt(SubSeq(date_str, 7, 8))),
                  ParseInt(SubSeq(date_str, 4, 5)), ParseInt(SubSeq(date_str, 1, 2)),
                  ParseInt(SubSeq(time_str, 1, 2)), ParseInt(SubSeq(time_str, 4, 5)),
                  ParseInt(SubSeq(time_str, 7, 8))))

\* datetime.strptime(f"{date_str} {time_str}", "%d.%m.%y %H:%M:%S") on two
\* tokens of the pattern's shape: None where it raises ValueError.  The
\* format's own patterns admit day 01..31, month 01..12, hour 00..23,
\* minute 00..59 and second 00..61; datetime() then rejects a day past the
\* month's end and a second past 59.
Strptime(date_str, time_str) ==
    LET day == ParseInt(SubSeq(date_str, 1, 2))
        month == ParseInt(SubSeq(date_str, 4, 5))
        year == CenturyOf(ParseInt(SubSeq(date_str, 7, 8)))
        hour == ParseInt(SubSeq(time_str, 1, 2))
        minute == ParseInt(SubSeq(time_str, 4, 5))
        second == ParseInt(SubSeq(time_str, 7, 8))
    IN  IF ~(/\ day \in 1..31 /\ month \in 1..12
             /\ hour <= 23 /\ minute <= 59 /\ second <= 61) THEN None
        ELSE IF day > DaysInMonth(year, month) \/ second > 59 THEN None
        ELSE Some(DateTime(year, month, day, hour, minute, second))

\* str.strip()
RECURSIVE LStrip(_)
LStrip(s) == IF Len(s) > 0 /\ s[1] \in WS THEN LStrip(Tail(s)) ELSE s
RECURSIVE RStrip(_)
RStrip(s) ==
    IF Len(s) > 0 /\ s[Len(s)] \in WS THEN RStrip(SubSeq(s, 1, Len(s) - 1)) ELSE s
Strip(s) == RStrip(LStrip(s))

\* parse_line(line): None or a Message
parse_line(s) ==
    LET match == PatternMatch(s)
    IN  IF match = None THEN None
        ELSE LET g == Val(match)
                 timestamp == Strptime(g[1], g[2])
             IN  IF timestamp = None THEN None
                 ELSE Some(Message(Val(timestamp), Strip(g[3]), Strip(g[4]), s))

\* The lines parse_line is run on: header lines with every two-digit year,
\* with and without brackets, on valid and invalid dates and times, and some
\* lines that are no headers.
HeaderLine(open, dd, mm, yy, gap, hh, mi, ss, close, user, body) ==
    open \o Fmt02d(dd) \o <<".">> \o Fmt02d(mm) \o <<".">> \o Fmt02d(yy) \o <<",">> \o gap
         \o Fmt02d(hh) \o <<":">> \o Fmt02d(mi) \o <<":">> \o Fmt02d(ss) \o close
         \o user \o <<":">> \o body
SampleDays == {<<26, 1>>, <<29, 2>>, <<31, 12>>, <<31, 4>>, <<32, 1>>, <<0, 1>>, <<1, 13>>}
SampleClock == {<<5, 47, 3>>, <<23, 59, 59>>, <<24, 0, 0>>, <<5, 47, 60>>}
LineInputs ==
    {HeaderLine(br[1], d[1], d[2], yy, <<" ">>, t[1], t[2], t[3], br[2],
                TARGET_USER, <<" ", "h", "i">>) :
        br \in {<<<<"[">>, <<"]", " ">>>>, <<<<>>, <<" ">>>>},
        d \in SampleDays, yy \in 0..99, t \in SampleClock}
    \cup {HeaderLine(<<"[">>, 26, 1, 24, gap, 5, 47, 3, close, user, body) :
            gap \in {<<>>, <<" ", "\t">>},
            close \in {<<"]">>, <<"]", " ", " ">>, <<>>, <<" ">>},
            user \in {<<>>, <<" ">>, <<"a", " ">>, <<"]">>},
            body \in {<<>>, <<" ">>, <<" ", " ", "b", ":", "c", " ">>, <<"x">>}}
    \cup {<<>>, <<"h", "i">>, <<"a", ":", " ", "b">>,
          <<"x">> \o HeaderLine(<<"[">>, 26, 1, 24, <<" ">>, 5, 47, 3, <<"]", " ">>,
                                TARGET_USER, <<" ", "h", "i">>)}

LineInit ==
    /\ pc = "line"
    /\ line \in LineInputs
    /\ parsed = None
    /\ messages = <<>>
    /\ pos = 0
    /\ WeekIdle /\ ExtractIdle /\ ParseIdle /\ FilterIdle /\ GroupIdle /\ PipelineIdle

ParseLine ==
    /\ pc = "line"
    /\ parsed = None
    /\ parsed' = Some(parse_line(line))
    /\ pc' = "line_done"
    /\ UNCHANGED <<line, notLine>>

LineNext == ParseLine

SpecLine == LineInit /\ [][LineNext]_vars

(***************************************************************************)
(* ChatParser.parse_file                                                   *)
(* Message objects live in `heap`; `messages` and `current_message` hold   *)
(* references (indices into heap), as Python's list and local do.          *)
(***************************************************************************)
\* line.rstrip('\n')
RECURSIVE RStripNewline(_)
RStripNewline(s) ==
    IF Len(s) > 0 /\ s[Len(s)] = "\n" THEN RStripNewline(SubSeq(s, 1, Len(s) - 1)) ELSE s

\* a plausible slip: the continuation is appended without the line break
append_continuation_no_break(m, s) ==
    [m EXCEPT !.text = @ \o s, !.raw_line = @ \o <<"\n">> \o s]

\* current_message.text += "\n" + line; current_message.raw_line += "\n" + line
append_continuation(m, s) ==
    [m EXCEPT !.text = @ \o <<"\n">> \o s, !.raw_line = @ \o <<"\n">> \o s]

\* The files parse_file is run on, as iterating the file yields them: up to
\* MaxLines lines, each ended by a line break, but for a last line that is
\* not empty and may lack it.
MaxLines == 4
SampleLines ==
    {HeaderLine(<<"[">>, 26, 1, 24, <<" ">>, 5, 47, 3, <<"]", " ">>, TARGET_USER,
                <<" ", "h", "i">>),
     HeaderLine(<<>>, 26, 1, 24, <<" ">>, 5, 47, 4, <<" ">>, OtherUser,
                <<" ", " ", "y", "o", " ">>),
     HeaderLine(<<"[">>, 32, 1, 24, <<" ">>, 5, 47, 5, <<"]", " ">>, OtherUser,
                <<" ", "x">>),
     <<"m", "o", "r", "e">>,
     <<>>}
FileInputs ==
    LET contents == SeqsUpTo(SampleLines, MaxLines)
        ended == {[k \in 1..Len(c) |-> c[k] \o <<"\n">>] : c \in contents}
    IN  ended \cup {[f EXCEPT ![Len(f)] = RStripNewline(@)] :
                        f \in {e \in ended : Len(e) > 0 /\ e[Len(e)] # <<"\n">>}}

ParseInit ==
    /\ pc = "parse"
    /\ lines \in FileInputs
    /\ pos = 0
    /\ messages = <<>>
    /\ current_message = None
    /\ heap = <<>>
    /\ WeekIdle /\ ExtractIdle /\ LineIdle /\ FilterIdle /\ GroupIdle /\ PipelineIdle

\* the line of the current iteration, after line.rstrip('\n')
CurrentLine == RStripNewline(lines[pos + 1])

\* a plausible slip: the parsed Message is put on the list as soon as it is
\* opened, so the list holds the Message that continuation lines still extend
OpenMessageListedEarly ==
    /\ pc = "parse"
    /\ pos < Len(lines)
    /\ parse_line(CurrentLine) # None
    /\ heap' = Append(heap, Val(parse_line(CurrentLine)))
    /\ messages' = Append(messages, Len(heap) + 1)
    /\ current_message' = Some(Len(heap) + 1)
    /\ pos' = pos + 1
    /\ UNCHANGED <<pc, lines, notParse>>

\* the loop body when parse_line returns a Message: the open Message, if any,
\* goes on the list and the new one becomes the open Message
OpenMessage ==
    /\ pc = "parse"
    /\ pos < Len(lines)
    /\ parse_line(CurrentLine) # None
    /\ heap' = Append(heap, Val(parse_line(CurrentLine)))
    /\ messages' = IF current_message # None
                   THEN Append(messages, Val(current_message))
                   ELSE messages
    /\ current_message' = Some(Len(heap) + 1)
    /\ pos' = pos + 1
    /\ UNCHANGED <<pc, lines, notParse>>

\* the loop body when parse_line returns None and a Message is open
AppendContinuation ==
    /\ pc = "parse"
    /\ pos < Len(lines)
    /\ parse_line(CurrentLine) = None
    /\ current_message # None
    /\ heap' = [heap EXCEPT ![Val(current_message)] = append_continuation(@, CurrentLine)]
    /\ pos' = pos + 1
    /\ UNCHANGED <<pc, lines, messages, current_message, notParse>>

\* the loop body when parse_line returns None and no Message is open
DropLine ==
    /\ pc = "parse"
    /\ pos < Len(lines)
    /\ parse_line(CurrentLine) = None
    /\ current_message = None
    /\ pos' = pos + 1
    /\ UNCHANGED <<pc, lines, messages, current_message, heap, notParse>>

\* after the loop: the open Message, if any, goes on the list; return messages
ParseReturn ==
    /\ pc = "parse"
    /\ pos = Len(lines)
    /\ messages' = IF current_message # None
                   THEN Append(messages, Val(current_message))
                   ELSE messages
    /\ pc' = "parse_done"
    /\ UNCHANGED <<lines, pos, current_message, heap, notParse>>

ParseNext == OpenMessage \/ AppendContinuation \/ DropLine \/ ParseReturn

SpecParse == ParseInit /\ [][ParseNext]_vars

(***************************************************************************)
(* ChatParser.filter_system_messages                                       *)
(***************************************************************************)
\* the marker character of msg.text.startswith(...): U+200E
MARKER == "LRM"

system_keywords ==
    <<
     <<"N", "a", "c", "h", "r", "i", "c", "h", "t", "e", "n", " ", "u", "n", "d",
       " ", "A", "n", "r", "u", "f", "e", " ", "s", "i", "n", "d", " ", "E", "n",
       "d", "e", "-", "z", "u", "-", "E", "n", "d", "e", "-", "v", "e", "r", "s",
       "c", "h", "l", "u-uml", "s", "s", "e", "l", "t">>,
     <<"LRM", "A", "u", "d", "i", "o", " ", "w", "e", "g", "g", "e", "l", "a",
       "s", "s", "e", "n">>,
     <<"LRM", "V", "i", "d", "e", "o", " ", "w", "e", "g", "g", "e", "l", "a",
       "s", "s", "e", "n">>,
     <<"LRM", "B", "i", "l", "d", " ", "w", "e", "g", "g", "e", "l", "a", "s",
       "s", "e", "n">>,
     <<"LRM", "S", "t", "i", "c", "k", "e", "r", " ", "w", "e", "g", "g", "e",
       "l", "a", "s", "s", "e", "n">>,
     <<"LRM", "D", "o", "k", "u", "m", "e", "n", "t", " ", "w", "e", "g", "g",
       "e", "l", "a", "s", "s", "e", "n">>,
     <<"LRM", "G", "I", "F", " ", "w", "e", "g", "g", "e", "l", "a", "s", "s",
       "e", "n">>,
     <<"LRM", "K", "o", "n", "t", "a", "k", "t", " ", "w", "e", "g", "g", "e",
       "l", "a", "s", "s", "e", "n">>,
     <<"D", "i", "e", "s", "e", " ", "N", "a", "c", "h", "r", "i", "c", "h", "t",
       " ", "w", "u", "r", "d", "e", " ", "g", "e", "l", "o-uml", "s", "c", "h",
       "t">>,
     <<"LRM", "<", "D", "i", "e", "s", "e", " ", "N", "a", "c", "h", "r", "i",
       "c", "h", "t", " ", "w", "u", "r", "d", "e", " ", "b", "e", "a", "r", "b",
       "e", "i", "t", "e", "t", ".", ">">>
    >>

\* text.startswith(prefix)
startswith(text, prefix) ==
    Len(text) >= Len(prefix) /\ SubSeq(text, 1, Len(prefix)) = prefix

\* keyword in text, scanning the offsets from `from` on
RECURSIVE FindFrom(_, _, _)
FindFrom(text, keyword, from) ==
    IF from + Len(keyword) - 1 > Len(text) THEN FALSE
    ELSE IF SubSeq(text, from, from + Len(keyword) - 1) = keyword THEN TRUE
    ELSE FindFrom(text, keyword, from + 1)
contains(text, keyword) == FindFrom(text, keyword, 1)

\* a plausible slip: all() where any() is meant
is_system_all(text) ==
    \A k \in 1..Len(system_keywords) : contains(text, system_keywords[k])

\* any(keyword in msg.text for keyword in system_keywords)
is_system(text) ==
    \E k \in 1..Len(system_keywords) : contains(text, system_keywords[k])

\* The lists the filter is run on: up to MaxFilterMsgs messages whose texts
\* are authored text, notices, and near misses of notices.
MaxFilterMsgs == 3
Hi == <<"h", "i">>
AudioOmitted == <<"A", "u", "d", "i", "o", " ", "w", "e", "g", "g", "e", "l", "a", "s", "s", "e", "n">>
SampleTexts ==
    {Hi,
     <<>>,
     <<MARKER>> \o AudioOmitted,                          \* a notice as exported
     AudioOmitted,                                        \* the phrase without its marker
     Hi \o <<" ", MARKER>> \o AudioOmitted \o <<" ">>,    \* a phrase inside the text
     Hi \o <<MARKER>>,                                    \* the marker, not at the start
     Hi \o <<"\n">> \o system_keywords[9],                \* a phrase on a continuation line
     SubSeq(system_keywords[9], 1, Len(system_keywords[9]) - 1),
     system_keywords[1]}
FilterMessage(k, text) ==
    Message(DateTime(2024, 1, 26, 5, 47, k), OtherUser, text, <<"r", Digits[k + 1]>>)
FilterInputs ==
    {[k \in 1..Len(ts) |-> FilterMessage(k - 1, ts[k])] :
        ts \in SeqsUpTo(SampleTexts, MaxFilterMsgs)}

FilterInit ==
    /\ pc = "filter"
    /\ messages \in FilterInputs
    /\ pos = 0
    /\ filtered = <<>>
    /\ first_call = None
    /\ WeekIdle /\ ExtractIdle /\ LineIdle /\ ParseIdle /\ GroupIdle /\ PipelineIdle

\* the loop body when the text starts with the marker: continue
FilterSkipMarker ==
    /\ pc = "filter"
    /\ pos < Len(messages)
    /\ startswith(messages[pos + 1].text, <<MARKER>>)
    /\ pos' = pos + 1
    /\ UNCHANGED <<pc, messages, filtered, first_call, notFilter>>

\* the loop body when the text holds a system keyword: not appended
FilterSkipKeyword ==
    /\ pc = "filter"
    /\ pos < Len(messages)
    /\ ~startswith(messages[pos + 1].text, <<MARKER>>)
    /\ is_system(messages[pos + 1].text)
    /\ pos' = pos + 1
    /\ UNCHANGED <<pc, messages, filtered, first_call, notFilter>>

\* the loop body otherwise: filtered.append(msg)
FilterKeep ==
    /\ pc = "filter"
    /\ pos < Len(messages)
    /\ ~startswith(messages[pos + 1].text, <<MARKER>>)
    /\ ~is_system(messages[pos + 1].text)
    /\ filtered' = Append(filtered, messages[pos + 1])
    /\ pos' = pos + 1
    /\ UNCHANGED <<pc, messages, first_call, notFilter>>

\* return filtered
FilterReturn ==
    /\ pc = "filter"
    /\ pos = Len(messages)
    /\ pc' = "filter_done"
    /\ UNCHANGED <<messages, pos, filtered, first_call, notFilter>>

\* filter_system_messages called again, on the list it returned
FilterAgain ==
    /\ pc = "filter_done"
    /\ first_call = None
    /\ first_call' = Some(<<messages, filtered>>)
    /\ messages' = filtered
    /\ filtered' = <<>>
    /\ pos' = 0
    /\ pc' = "filter"
    /\ UNCHANGED notFilter

FilterNext ==
    FilterSkipMarker \/ FilterSkipKeyword \/ FilterKeep \/ FilterReturn \/ FilterAgain

SpecFilter == FilterInit /\ [][FilterNext]_vars

(***************************************************************************)
(* WeekGrouper.group_by_week, format_conversation, get_weekly_summaries    *)
(***************************************************************************)
\* a plausible slip: the bucket is assigned, not appended to
bucket_overwrite(w, key, msg) ==
    IF key \in DOMAIN w THEN [w EXCEPT ![key] = <<msg>>] ELSE w @@ (key :> <<msg>>)

\* weeks[week_key].append(msg) on a defaultdict(list)
bucket_append(w, key, msg) ==
    IF key \in DOMAIN w THEN [w EXCEPT ![key] = Append(@, msg)] ELSE w @@ (key :> <<msg>>)

\* extract_conversations(messages, context_size) as one call: the scan from
\* index k on, with the used indices and the conversations so far
RECURSIVE ExtractFrom(_, _, _, _, _)
ExtractFrom(msgs, c, k, used, convs) ==
    IF k >= Len(msgs) THEN convs
    ELSE IF msgs[k + 1].user = TARGET_USER /\ k \notin used
    THEN ExtractFrom(msgs, c, k + 1, mark_used(used, msgs, k, c),
                     Append(convs, extract_context_window(msgs, k, c)))
    ELSE ExtractFrom(msgs, c, k + 1, used, convs)
extract_conversations(msgs, c) == ExtractFrom(msgs, c, 0, {}, <<>>)

\* the default of extract_conversations' context_size
DEFAULT_CONTEXT_SIZE == 5

\* msg.timestamp.strftime("%d.%m.%y, %H:%M:%S")
Strftime(t) ==
    Fmt02d(t.day) \o <<".">> \o Fmt02d(t.month) \o <<".">> \o Fmt02d(t.year % 100)
        \o <<",", " ">> \o Fmt02d(t.hour) \o <<":">> \o Fmt02d(t.minute)
        \o <<":">> \o Fmt02d(t.second)

\* "\n".join(parts)
RECURSIVE JoinLines(_)
JoinLines(parts) ==
    IF Len(parts) = 0 THEN <<>>
    ELSE IF Len(parts) = 1 THEN parts[1]
    ELSE parts[1] \o <<"\n">> \o JoinLines(Tail(parts))

format_conversation(msgs) ==
    JoinLines([k \in 1..Len(msgs) |->
        <<"[">> \o Strftime(msgs[k].timestamp) \o <<"]", " ">> \o msgs[k].user
            \o <<":", " ">> \o msgs[k].text])

\* ord(c) for the characters of a week key
CharCode(c) == IF c \in DigitChars THEN 48 + DigitVal(c) ELSE IF c = "-" THEN 45 ELSE 87

\* Python's a < b on strings
RECURSIVE StrLess(_, _)
StrLess(a, b) ==
    IF Len(b) = 0 THEN FALSE
    ELSE IF Len(a) = 0 THEN TRUE
    ELSE IF a[1] # b[1] THEN CharCode(a[1]) < CharCode(b[1])
    ELSE StrLess(Tail(a), Tail(b))

\* a plausible slip: the two counts of a summary are swapped
week_summary_counts_swapped(key, week_messages) ==
    LET first_msg == week_messages[1]
        range == get_week_range(first_msg.timestamp)
        convs == extract_conversations(week_messages, DEFAULT_CONTEXT_SIZE)
    IN  [week_key |-> key,
         week_start |-> range[1],
         week_end |-> range[2],
         conversations |-> [k \in 1..Len(convs) |-> format_conversation(convs[k])],
         target_message_count |-> Len(week_messages),
         total_message_count |->
             Cardinality({k \in 1..Len(week_messages) : week_messages[k].user = TARGET_USER})]

\* the weeks_data entry get_weekly_summaries builds for one week
week_summary(key, week_messages) ==
    LET first_msg == week_messages[1]
        range == get_week_range(first_msg.timestamp)
        convs == extract_conversations(week_messages, DEFAULT_CONTEXT_SIZE)
    IN  [week_key |-> key,
         week_start |-> range[1],
         week_end |-> range[2],
         conversations |-> [k \in 1..Len(convs) |-> format_conversation(convs[k])],
         target_message_count |->
             Cardinality({k \in 1..Len(week_messages) : week_messages[k].user = TARGET_USER}),
         total_message_count |-> Len(week_messages)]

\* The lists get_weekly_summaries is run on: up to MaxGroupMsgs messages, in
\* any order, on days around the turn of the ISO year 2025; the k-th message
\* of a list has text "m<k>".
MaxGroupMsgs == 3
SampleGroupDays == {<<2024, 12, 29>>, <<2024, 12, 30>>, <<2025, 1, 1>>, <<2025, 1, 6>>}
GroupMessage(k, day, user) ==
    Message(DateTime(day[1], day[2], day[3], 5, 47, k), user, <<"m", Digits[k + 1]>>,
            <<"r", Digits[k + 1]>>)
GroupInputs ==
    {[k \in 1..Len(c) |-> GroupMessage(k - 1, c[k][1], c[k][2])] :
        c \in SeqsUpTo(SampleGroupDays \X {TARGET_USER, OtherUser}, MaxGroupMsgs)}

GroupInit ==
    /\ pc = "group"
    /\ messages \in GroupInputs
    /\ pos = 0
    /\ weeks = <<>>
    /\ weeks_data = <<>>
    /\ WeekIdle /\ ExtractIdle /\ LineIdle /\ ParseIdle /\ FilterIdle /\ PipelineIdle

\* group_by_week: the loop body
GroupMessageStep ==
    /\ pc = "group"
    /\ pos < Len(messages)
    /\ weeks' = bucket_append(weeks, get_week_key(messages[pos + 1].timestamp),
                              messages[pos + 1])
    /\ pos' = pos + 1
    /\ UNCHANGED <<pc, messages, weeks_data, notGroup>>

\* group_by_week: return dict(weeks)
GroupReturn ==
    /\ pc = "group"
    /\ pos = Len(messages)
    /\ pc' = "summaries"
    /\ UNCHANGED <<messages, pos, weeks, weeks_data, notGroup>>

\* get_weekly_summaries: the loop body, for the next key of sorted(weeks.keys())
SummariseWeek ==
    /\ pc = "summaries"
    /\ \E key \in DOMAIN weeks \ DOMAIN weeks_data :
          /\ \A other \in DOMAIN weeks \ DOMAIN weeks_data :
                other # key => StrLess(key, other)
          /\ weeks_data' = weeks_data @@ (key :> week_summary(key, weeks[key]))
    /\ UNCHANGED <<pc, messages, pos, weeks, notGroup>>

\* get_weekly_summaries: return weeks_data
SummariesReturn ==
    /\ pc = "summaries"
    /\ DOMAIN weeks_data = DOMAIN weeks
    /\ pc' = "summaries_done"
    /\ UNCHANGED <<messages, pos, weeks, weeks_data, notGroup>>

GroupNext == GroupMessageStep \/ GroupReturn \/ SummariseWeek \/ SummariesReturn

SpecGroup == GroupInit /\ [][GroupNext]_vars

(***************************************************************************)
(* ArchiveProcessor.process_archive, process_all_archives and main's call  *)
(* of get_weekly_summaries on the combined list                            *)
(***************************************************************************)
\* parse_file(file_path) as one call: the scan from line k on, with the list
\* and the open Message so far
RECURSIVE ParseFrom(_, _, _, _)
ParseFrom(ls, k, msgs, current) ==
    LET sealed == IF current # None THEN Append(msgs, Val(current)) ELSE msgs
    IN  IF k > Len(ls) THEN sealed
        ELSE LET l == RStripNewline(ls[k])
                 p == parse_line(l)
             IN  IF p # None THEN ParseFrom(ls, k + 1, sealed, p)
                 ELSE IF current # None
                 THEN ParseFrom(ls, k + 1, msgs, Some(append_continuation(Val(current), l)))
                 ELSE ParseFrom(ls, k + 1, msgs, current)
parse_file(ls) == ParseFrom(ls, 1, <<>>, None)

\* filter_system_messages(messages) as one call
kept_by_filter(msg) == ~startswith(msg.text, <<MARKER>>) /\ ~is_system(msg.text)
filter_system_messages(msgs) == SelectSeq(msgs, kept_by_filter)

\* list.sort(key=lambda m: m.timestamp): stable, ascending
RECURSIVE sort_by_timestamp(_)
sort_by_timestamp(msgs) ==
    IF Len(msgs) = 0 THEN <<>>
    ELSE LET front == sort_by_timestamp(SubSeq(msgs, 1, Len(msgs) - 1))
             m == msgs[Len(msgs)]
             n == Cardinality({k \in 1..Len(front) : DtLeq(front[k].timestamp, m.timestamp)})
         IN  SubSeq(front, 1, n) \o <<m>> \o SubSeq(front, n + 1, Len(front))

\* A transcript the processor is pointed at: one whose processing succeeds,
\* with the lines it holds, or one whose processing raises (a zip without
\* _chat.txt, a file that cannot be read)
Transcript(ls) == [ok |-> TRUE, lines |-> ls]
Failing == [ok |-> FALSE, lines |-> <<>>]

\* The transcripts of the data directory: their lines are headers by the
\* target user and by someone else on days around the turn of the ISO year
\* 2025, a media notice, and a deletion notice on a continuation line.
MaxArchives == 2
LineHi ==
    HeaderLine(<<"[">>, 30, 12, 24, <<" ">>, 5, 47, 3, <<"]", " ">>, TARGET_USER,
               <<" ">> \o Hi) \o <<"\n">>
LineNotice ==
    HeaderLine(<<"[">>, 1, 1, 25, <<" ">>, 5, 47, 4, <<"]", " ">>, TARGET_USER,
               <<" ", MARKER>> \o AudioOmitted) \o <<"\n">>
LineYo ==
    HeaderLine(<<"[">>, 29, 12, 24, <<" ">>, 5, 47, 5, <<"]", " ">>, OtherUser,
               <<" ", "y", "o">>) \o <<"\n">>
LineDeleted == system_keywords[9] \o <<"\n">>
LineOk ==
    HeaderLine(<<"[">>, 6, 1, 25, <<" ">>, 5, 47, 6, <<"]", " ">>, OtherUser,
               <<" ", "o", "k">>) \o <<"\n">>
SampleFiles ==
    {<<LineHi, LineNotice>>,
     <<LineYo, LineDeleted>>,
     <<LineNotice>>,
     <<LineOk, LineHi>>}
TranscriptInputs == {Transcript(f) : f \in SampleFiles} \cup {Failing}

PipelineInit ==
    /\ pc = "archives"
    /\ zip_files \in SeqsUpTo(TranscriptInputs, MaxArchives)
    /\ standalone_chat \in {None} \cup {Some(t) : t \in TranscriptInputs}
    /\ all_messages = <<>>
    /\ zip_index = 0
    /\ messages = <<>>
    /\ pos = 0
    /\ WeekIdle /\ ExtractIdle /\ LineIdle /\ ParseIdle /\ FilterIdle /\ GroupIdle

\* a plausible slip: the standalone transcript is parsed but not filtered
ProcessStandaloneUnfiltered ==
    /\ pc = "archives"
    /\ zip_index = Len(zip_files)
    /\ standalone_chat # None
    /\ Val(standalone_chat).ok
    /\ all_messages' = all_messages \o parse_file(Val(standalone_chat).lines)
    /\ pc' = "sort"
    /\ UNCHANGED <<messages, pos, zip_files, standalone_chat, zip_index, groupVars,
                   notPipeline>>

\* the loop body when process_archive returns: parse, filter, extend
ProcessArchive ==
    /\ pc = "archives"
    /\ zip_index < Len(zip_files)
    /\ zip_files[zip_index + 1].ok
    /\ all_messages' = all_messages \o
           filter_system_messages(parse_file(zip_files[zip_index + 1].lines))
    /\ zip_index' = zip_index + 1
    /\ UNCHANGED <<pc, messages, pos, zip_files, standalone_chat, groupVars, notPipeline>>

\* the loop body when process_archive raises: the archive is skipped
ArchiveError ==
    /\ pc = "archives"
    /\ zip_index < Len(zip_files)
    /\ ~zip_files[zip_index + 1].ok
    /\ zip_index' = zip_index + 1
    /\ UNCHANGED <<pc, messages, pos, zip_files, standalone_chat, all_messages, groupVars,
                   notPipeline>>

\* after the loop, _chat.txt exists: parse, filter, extend
ProcessStandalone ==
    /\ pc = "archives"
    /\ zip_index = Len(zip_files)
    /\ standalone_chat # None
    /\ Val(standalone_chat).ok
    /\ all_messages' = all_messages \o
           filter_system_messages(parse_file(Val(standalone_chat).lines))
    /\ pc' = "sort"
    /\ UNCHANGED <<messages, pos, zip_files, standalone_chat, zip_index, groupVars,
                   notPipeline>>

\* after the loop, _chat.txt exists and reading it raises
StandaloneError ==
    /\ pc = "archives"
    /\ zip_index = Len(zip_files)
    /\ standalone_chat # None
    /\ ~Val(standalone_chat).ok
    /\ pc' = "sort"
    /\ UNCHANGED <<messages, pos, pipelineVars, groupVars, notPipeline>>

\* after the loop, there is no _chat.txt
NoStandalone ==
    /\ pc = "archives"
    /\ zip_index = Len(zip_files)
    /\ standalone_chat = None
    /\ pc' = "sort"
    /\ UNCHANGED <<messages, pos, pipelineVars, groupVars, notPipeline>>

\* all_messages.sort(key=lambda m: m.timestamp); return all_messages
SortMessages ==
    /\ pc = "sort"
    /\ all_messages' = sort_by_timestamp(all_messages)
    /\ pc' = "main"
    /\ UNCHANGED <<messages, pos, zip_files, standalone_chat, zip_index, groupVars,
                   notPipeline>>

\* main: if not all_messages: return
MainNoMessages ==
    /\ pc = "main"
    /\ all_messages = <<>>
    /\ pc' = "main_done"
    /\ UNCHANGED <<messages, pos, pipelineVars, groupVars, notPipeline>>

\* main: grouper.get_weekly_summaries(all_messages)
MainGroup ==
    /\ pc = "main"
    /\ all_messages # <<>>
    /\ messages' = all_messages
    /\ pos' = 0
    /\ pc' = "group"
    /\ UNCHANGED <<pipelineVars, groupVars, notPipeline>>

PipelineNext ==
    \/ ProcessArchive \/ ArchiveError
    \/ ProcessStandalone \/ StandaloneError \/ NoStandalone
    \/ SortMessages \/ MainNoMessages \/ MainGroup
    \/ GroupMessageStep \/ GroupReturn \/ SummariseWeek \/ SummariesReturn

SpecPipeline == PipelineInit /\ [][PipelineNext]_vars

(***************************************************************************)
(* Claims about extract_conversations (SpecExtract)                        *)
(***************************************************************************)
WindowRange(w) == Range(w.start_idx, w.end_idx)
IsTarget(j) == messages[j + 1].user = TARGET_USER
ElementsOf(s) == {s[k] : k \in 1..Len(s)}

\* C1: no two windows emitted by one extract_conversations call share a
\* message index: the index ranges of all emitted windows are pairwise
\* disjoint.
C1_WindowsPairwiseDisjoint ==
    \A a, b \in 1..Len(windows) :
        a # b => WindowRange(windows[a]) \cap WindowRange(windows[b]) = {}

\* C2: every index j with messages[j].user == target_user that the scan has
\* passed lies inside the index range of at least one emitted window, and
\* the message is in that window's slice; at the return this is every
\* target index of the list.
C2_TargetsCovered ==
    pc \in {"extract", "extract_done"} =>
        /\ Len(conversations) = Len(windows)
        /\ \A j \in 0..(i - 1) :
              IsTarget(j) =>
                  \E w \in 1..Len(windows) :
                      /\ j \in WindowRange(windows[w])
                      /\ messages[j + 1] \in ElementsOf(conversations[w])
        /\ pc = "extract_done" => i = Len(messages)

\* C2's case: the call returned at least two windows and a target-user
\* message that triggered none of them
C2_Witness ==
    /\ pc = "extract_done"
    /\ Len(windows) >= 2
    /\ \E j \in 0..(Len(messages) - 1) :
          IsTarget(j) /\ \A w \in 1..Len(windows) : windows[w].i # j

\* the indices consumed by the windows triggered before index j
ConsumedBefore(j) ==
    UNION {WindowRange(windows[w]) : w \in {v \in 1..Len(windows) : windows[v].i < j}}

\* C3: a target-user message whose index is already consumed when the scan
\* reaches it emits no window and changes neither an earlier window nor the
\* consumed set; the number of emitted windows is the number of target
\* indices that were unconsumed when scanned; targets at exactly 2 and 4
\* with context_size 2 in a list of at least 5 messages give the one
\* window [0,5).
C3_ConsumedTargetSkipped ==
    /\ [][(pc = "extract" /\ i < Len(messages) /\ IsTarget(i) /\ i \in used_indices)
            => (/\ conversations' = conversations
                /\ windows' = windows
                /\ used_indices' = used_indices)]_vars
    /\ [](pc \in {"extract", "extract_done"} =>
            /\ Len(conversations) =
                   Cardinality({j \in 0..(i - 1) : IsTarget(j) /\ j \notin ConsumedBefore(j)})
            /\ used_indices = UNION {WindowRange(windows[w]) : w \in 1..Len(windows)})
    /\ []((/\ pc = "extract_done"
           /\ context_size = 2
           /\ Len(messages) >= 5
           /\ {j \in 0..(Len(messages) - 1) : IsTarget(j)} = {2, 4})
            => (/\ windows = <<[i |-> 2, start_idx |-> 0, end_idx |-> 5]>>
                /\ conversations = <<Slice(messages, 0, 5)>>))

\* C3's case: with context_size 2 and targets at exactly 2 and 4, the scan
\* has passed index 4 and returned
C3_Witness ==
    /\ pc = "extract_done"
    /\ context_size = 2
    /\ Len(messages) >= 5
    /\ {j \in 0..(Len(messages) - 1) : IsTarget(j)} = {2, 4}
    /\ 4 \in used_indices
    /\ Len(conversations) = 1

(***************************************************************************)
(* Claims about get_week_key and get_week_range (SpecWeek)                 *)
(***************************************************************************)
\* C4: get_week_range(dt) returns the Monday 00:00:00 and the Sunday
\* 23:59:59 of the ISO week that contains dt, so week_start <= dt <= week_end.
C4_WeekRangeIsIsoWeek ==
    week_range # None =>
        LET week_start == Val(week_range)[1]
            week_end == Val(week_range)[2]
        IN  /\ Weekday(DtOrdinal(week_start)) = 0
            /\ DtSeconds(week_start) = 0
            /\ DtOrdinal(week_end) = DtOrdinal(week_start) + 6
            /\ DtSeconds(week_end) = 23 * 3600 + 59 * 60 + 59
            /\ DtLeq(week_start, dt)
            /\ DtLeq(dt, week_end)

\* C5: get_week_key(week_start) == get_week_key(week_end) == get_week_key(dt)
\* for (week_start, week_end) = get_week_range(dt).
C5_WeekKeyIdempotent ==
    (week_key # None /\ range_keys # None) =>
        /\ Val(range_keys)[1] = Val(week_key)
        /\ Val(range_keys)[2] = Val(week_key)

(***************************************************************************)
(* Claims about parse_line (SpecLine)                                      *)
(***************************************************************************)
\* the two-digit year token of a header line: the 7th and 8th characters of
\* its date token, which follows the optional opening bracket
YearToken(s) ==
    LET b == IF s[1] = "[" THEN 1 ELSE 0 IN ParseInt(SubSeq(s, b + 7, b + 8))

\* C6: for every valid header line with two-digit year token YY, the parsed
\* Message's timestamp has calendar year 2000+YY.
C6_YearIs2000PlusYY ==
    (parsed # None /\ Val(parsed) # None) =>
        Val(Val(parsed)).timestamp.year = 2000 + YearToken(line)

(***************************************************************************)
(* Claims about parse_file (SpecParse)                                     *)
(***************************************************************************)
\* the k-th line read so far, without its line break, and whether it is a
\* valid header line
Stripped(k) == RStripNewline(lines[k])
IsHeader(k) == parse_line(Stripped(k)) # None
HeadersRead == {k \in 1..pos : IsHeader(k)}
NthHeader(n) == CHOOSE h \in HeadersRead : Cardinality({x \in HeadersRead : x < h}) = n - 1

\* the last line read that belongs to the header at line h
LastLineOf(h) ==
    IF \E x \in HeadersRead : x > h
    THEN (CHOOSE x \in HeadersRead : x > h /\ \A y \in HeadersRead : y > h => x <= y) - 1
    ELSE pos

\* acc followed by the lines from..to, each preceded by one line break
RECURSIVE WithLines(_, _, _)
WithLines(acc, from, to) ==
    IF from > to THEN acc
    ELSE WithLines(acc \o <<"\n">> \o Stripped(from), from + 1, to)

\* the Messages made so far, in order: the listed ones and then the open one
MessagesSoFar ==
    IF pc = "parse" /\ current_message # None
    THEN Append(messages, Val(current_message))
    ELSE messages

CountOf(c, s) == Cardinality({k \in 1..Len(s) : s[k] = c})

\* C7: a valid header line followed by k >= 0 non-header lines gives a
\* Message whose text is the stripped header body followed by each of those
\* lines in input order, each preceded by one line break, and whose raw_line
\* is the header line followed by the same lines joined the same way.
C7_ContinuationsJoined ==
    pc \in {"parse", "parse_done"} =>
        /\ Len(MessagesSoFar) = Cardinality(HeadersRead)
        /\ \A n \in 1..Len(MessagesSoFar) :
              LET h == NthHeader(n)
                  m == heap[MessagesSoFar[n]]
                  body == Val(PatternMatch(Stripped(h)))[4]
              IN  /\ m.text = WithLines(Strip(body), h + 1, LastLineOf(h))
                  /\ m.raw_line = WithLines(Stripped(h), h + 1, LastLineOf(h))

\* C7's case: the file is read and a header whose body had surrounding
\* whitespace was followed by two non-header lines
C7_Witness ==
    /\ pc = "parse_done"
    /\ \E n \in 1..Len(messages) :
          /\ CountOf("\n", heap[messages[n]].text) = 2
          /\ heap[messages[n]].user = OtherUser

\* C8: once a Message is on the output list no later line changes its
\* text, raw_line, user or timestamp, nor its position in the list; only the
\* currently open Message is ever changed.
C8_SealedNeverMutated ==
    [][pc = "parse" =>
          /\ Len(messages') >= Len(messages)
          /\ SubSeq(messages', 1, Len(messages)) = messages
          /\ Len(heap') >= Len(heap)
          /\ \A k \in 1..Len(messages) : heap'[messages[k]] = heap[messages[k]]
          /\ \A r \in 1..Len(heap) :
                heap'[r] # heap[r] =>
                    /\ current_message = Some(r)
                    /\ current_message' = current_message
                    /\ \A k \in 1..Len(messages') : messages'[k] # r]_vars

\* C8's case: a Message is sealed on the list and a later line has extended
\* the Message opened after it
C8_Witness ==
    /\ pc = "parse"
    /\ Len(messages) >= 1
    /\ current_message # None
    /\ CountOf("\n", heap[Val(current_message)].text) >= 1

(***************************************************************************)
(* Claims about filter_system_messages (SpecFilter)                        *)
(***************************************************************************)
\* the text begins with the marker character
BeginsWithMarker(text) == Len(text) >= 1 /\ text[1] = MARKER

\* the text contains at least one of the configured system-notice phrases
ContainsPhrase(text) ==
    \E k \in 1..Len(system_keywords) :
        \E o \in 0..(Len(text) - Len(system_keywords[k])) :
            \A c \in 1..Len(system_keywords[k]) : text[o + c] = system_keywords[k][c]

Authored(m) == ~(BeginsWithMarker(m.text) \/ ContainsPhrase(m.text))

\* C10: filter_system_messages returns an order-preserving subsequence of its
\* input in which a Message is dropped if and only if its text begins with
\* the marker character or contains a configured phrase; the kept Messages
\* are unchanged, and applying the filter a second time drops nothing more.
C10_FilterDropsExactlyNotices ==
    pc \in {"filter", "filter_done"} =>
        /\ filtered = SelectSeq(SubSeq(messages, 1, pos), Authored)
        /\ pc = "filter_done" => pos = Len(messages)
        /\ (pc = "filter_done" /\ first_call # None) => filtered = Val(first_call)[2]

\* C10's case: the second call has returned, after a first call that kept a
\* Message, dropped one for its marker and dropped one for a phrase
C10_Witness ==
    /\ pc = "filter_done"
    /\ first_call # None
    /\ Len(filtered) >= 1
    /\ LET given == Val(first_call)[1]
       IN  /\ \E k \in 1..Len(given) : BeginsWithMarker(given[k].text)
           /\ \E k \in 1..Len(given) :
                 ~BeginsWithMarker(given[k].text) /\ ContainsPhrase(given[k].text)

(***************************************************************************)
(* Claims about group_by_week and get_weekly_summaries (SpecGroup)         *)
(***************************************************************************)
RECURSIVE SumOver(_, _)
SumOver(keys, f) ==
    IF keys = {} THEN 0
    ELSE LET k == CHOOSE x \in keys : TRUE
         IN  f[k].total_message_count + SumOver(keys \ {k}, f)

\* how often message m occurs in list s
Occurrences(m, s) == Cardinality({k \in 1..Len(s) : s[k] = m})

\* C9: group_by_week partitions its input: every input Message is in exactly
\* one bucket, the one keyed by get_week_key of its own timestamp, exactly
\* once; within each bucket the messages keep their relative order of the
\* input; the total_message_count values over all weeks sum to the input
\* length.
C9_GroupPartitionsInput ==
    pc \in {"group", "summaries", "summaries_done"} =>
        /\ \A k \in 1..pos :
              \A key \in DOMAIN weeks :
                  Occurrences(messages[k], weeks[key]) =
                      IF key = get_week_key(messages[k].timestamp) THEN 1 ELSE 0
        /\ \A k \in 1..pos : get_week_key(messages[k].timestamp) \in DOMAIN weeks
        /\ \A key \in DOMAIN weeks :
              /\ Len(weeks[key]) >= 1
              /\ \A a, b \in 1..Len(weeks[key]) :
                    a < b =>
                        \E x, y \in 1..pos :
                            /\ x < y
                            /\ messages[x] = weeks[key][a]
                            /\ messages[y] = weeks[key][b]
        /\ pc # "group" => pos = Len(messages)
        /\ pc = "summaries_done" =>
              /\ DOMAIN weeks_data = DOMAIN weeks
              /\ SumOver(DOMAIN weeks_data, weeks_data) = Len(messages)

\* C9's case: the summaries of a list that is not in timestamp order are
\* returned, for two weeks or more, one of them with two messages or more
C9_Witness ==
    /\ pc = "summaries_done"
    /\ Cardinality(DOMAIN weeks_data) >= 2
    /\ \E key \in DOMAIN weeks : Len(weeks[key]) >= 2
    /\ \E k \in 1..(Len(messages) - 1) :
          DtOrdinal(messages[k].timestamp) > DtOrdinal(messages[k + 1].timestamp)

(***************************************************************************)
(* Claims about the order and the extent of the windows (SpecExtract)      *)
(***************************************************************************)
\* the slice [lo, hi) of the scanned list, written out index by index
SliceOf(lo, hi) == [k \in 1..(hi - lo) |-> messages[lo + k]]
\* max(0, t - c) and min(n, t + c + 1) for a trigger index t
LowerBound(t) == IF t - context_size > 0 THEN t - context_size ELSE 0
UpperBound(t) == IF t + context_size + 1 < Len(messages)
                 THEN t + context_size + 1 ELSE Len(messages)

\* C13: the windows returned by extract_conversations are listed in strictly
\* increasing order of the index of the target message that triggered each
\* one, and therefore in non-decreasing order of their lower bound lo: the
\* w-th returned conversation is the slice around the w-th trigger scanned.
C13_WindowsInTriggerOrder ==
    pc \in {"extract", "extract_done"} =>
        /\ Len(conversations) = Len(windows)
        /\ \A w \in 1..Len(windows) :
              /\ IsTarget(windows[w].i)
              /\ conversations[w] =
                     SliceOf(LowerBound(windows[w].i), UpperBound(windows[w].i))
        /\ \A a, b \in 1..Len(windows) :
              a < b => /\ windows[a].i < windows[b].i
                       /\ LowerBound(windows[a].i) <= LowerBound(windows[b].i)

\* C13's case: the call returned three windows, the first clamped at 0 by a
\* trigger after the start of the list
C13_Witness ==
    /\ pc = "extract_done"
    /\ Len(conversations) = 3
    /\ windows[1].i > 0
    /\ LowerBound(windows[1].i) = 0
    /\ LowerBound(windows[2].i) < LowerBound(windows[3].i)

\* C14: every window emitted for a trigger index t over a list of n messages
\* is exactly the slice [max(0, t - c), min(n, t + c + 1)): it is non-empty,
\* contains t, stays within 0..n, and the step that emits it marks exactly
\* the indices of that slice consumed; when context_size is at least n the
\* window is the whole list, and the emission is defined for every such c.
C14_WindowIsClampedSlice ==
    /\ [][(pc = "extract" /\ Len(conversations') > Len(conversations))
            => (/\ conversations' = Append(conversations, SliceOf(LowerBound(i), UpperBound(i)))
                /\ used_indices' = used_indices \cup {j \in 0..(Len(messages) - 1) :
                                        LowerBound(i) <= j /\ j < UpperBound(i)})]_vars
    /\ [](pc \in {"extract", "extract_done"} =>
            \A w \in 1..Len(conversations) :
                LET t == windows[w].i
                IN  /\ conversations[w] = SliceOf(LowerBound(t), UpperBound(t))
                    /\ Len(conversations[w]) >= 1
                    /\ conversations[w][t - LowerBound(t) + 1] = messages[t + 1]
                    /\ 0 <= LowerBound(t) /\ LowerBound(t) <= t
                    /\ t < UpperBound(t) /\ UpperBound(t) <= Len(messages)
                    /\ windows[w].start_idx = LowerBound(t)
                    /\ windows[w].end_idx = UpperBound(t)
                    /\ context_size >= Len(messages) => conversations[w] = messages)
    /\ []((/\ pc = "extract" /\ i < Len(messages) /\ IsTarget(i) /\ i \notin used_indices
           /\ context_size >= Len(messages))
            => ENABLED EmitWindow)

\* C14's case: a window clamped at both ends because context_size is at
\* least the length of a list of several messages, and the call returned
C14_Witness ==
    /\ pc = "extract_done"
    /\ Len(messages) >= 2
    /\ context_size >= Len(messages)
    /\ conversations = <<messages>>
    /\ used_indices = 0..(Len(messages) - 1)

(***************************************************************************)
(* Claim about the summaries returned (SpecGroup)                          *)
(***************************************************************************)
\* the week keys that have at least one input message
InputWeekKeys == {get_week_key(messages[k].timestamp) : k \in 1..Len(messages)}
\* the input messages of one week
InputCount(key) ==
    Cardinality({k \in 1..Len(messages) : get_week_key(messages[k].timestamp) = key})

\* C12: get_weekly_summaries returns exactly one summary per week key that
\* has at least one input message and none for any other week: every
\* returned summary has total_message_count >= 1 (the number of input
\* messages of its week), and an empty input list returns an empty mapping;
\* no step of the call fails: every bucket summarised has a first message,
\* and its ISO year and week are in the ranges strptime's %Y and %W accept.
C12_OneSummaryPerInputWeek ==
    /\ pc = "group" => ENABLED (GroupMessageStep \/ GroupReturn)
    /\ pc = "summaries" =>
          /\ DOMAIN weeks_data \subseteq InputWeekKeys
          /\ \A key \in DOMAIN weeks :
                /\ Len(weeks[key]) >= 1
                /\ IsoCalendar(weeks[key][1].timestamp)[1] \in 1000..9999
                /\ IsoCalendar(weeks[key][1].timestamp)[2] \in 0..53
          /\ \/ DOMAIN weeks_data = DOMAIN weeks
             \/ \E key \in DOMAIN weeks \ DOMAIN weeks_data :
                   \A other \in DOMAIN weeks \ DOMAIN weeks_data :
                       other # key => StrLess(key, other)
    /\ pc = "summaries_done" =>
          /\ DOMAIN weeks_data = InputWeekKeys
          /\ \A key \in DOMAIN weeks_data :
                /\ weeks_data[key].week_key = key
                /\ weeks_data[key].total_message_count >= 1
                /\ weeks_data[key].total_message_count = InputCount(key)
          /\ messages = <<>> => weeks_data = <<>>

\* C12's case: the summaries of three messages in two weeks are returned,
\* one of the weeks without a message of the target user
C12_Witness ==
    /\ pc = "summaries_done"
    /\ Len(messages) = 3
    /\ Cardinality(DOMAIN weeks_data) = 2
    /\ \E key \in DOMAIN weeks_data : weeks_data[key].target_message_count = 0

(***************************************************************************)
(* Claim about which lines open a Message (SpecParse)                      *)
(***************************************************************************)
\* two digits at s[p], s[p+1], and their value
DigitPair(s, p) == p >= 1 /\ p + 1 <= Len(s) /\ s[p] \in DigitChars /\ s[p + 1] \in DigitChars
PairValue(s, p) == 10 * DigitVal(s[p]) + DigitVal(s[p + 1])

\* dd<sep>dd<sep>dd starting at s[p]
TripleAt(s, p, sep) ==
    /\ DigitPair(s, p) /\ DigitPair(s, p + 3) /\ DigitPair(s, p + 6)
    /\ s[p + 2] = sep /\ s[p + 5] = sep

\* day dd of month mm of a year ending in yy exists, and hh:mi:ss is a time
\* of day (a year ending in yy is a leap year exactly when yy is a multiple
\* of 4, in both centuries a two-digit year can stand for)
CalendarValid(dd, mm, yy, hh, mi, ss) ==
    /\ mm \in 1..12
    /\ dd >= 1
    /\ dd <= (IF mm = 2 THEN (IF yy % 4 = 0 THEN 29 ELSE 28)
              ELSE IF mm \in {4, 6, 9, 11} THEN 30 ELSE 31)
    /\ hh \in 0..23 /\ mi \in 0..59 /\ ss \in 0..59

\* s reads: an optional "[", a date DD.MM.YY, a comma, whitespace, a time
\* HH:MM:SS, at least one character that is no colon, a colon, at least one
\* more character; and the date and the time exist
ValidHeaderLine(s) ==
    \E b \in {0, 1} :
        /\ b = 1 => (Len(s) >= 1 /\ s[1] = "[")
        /\ TripleAt(s, b + 1, ".")
        /\ Len(s) >= b + 9 /\ s[b + 9] = ","
        /\ \E g \in 0..(Len(s) - b - 9) :
              /\ \A k \in (b + 10)..(b + 9 + g) : s[k] \in WS
              /\ TripleAt(s, b + 10 + g, ":")
              /\ CalendarValid(PairValue(s, b + 1), PairValue(s, b + 4),
                               PairValue(s, b + 7), PairValue(s, b + 10 + g),
                               PairValue(s, b + 13 + g), PairValue(s, b + 16 + g))
              /\ \E c \in (b + 19 + g)..(Len(s) - 1) :
                    /\ s[c] = ":"
                    /\ \A k \in (b + 18 + g)..(c - 1) : s[k] # ":"

\* the valid header lines among the lines read
ValidHeadersRead == {k \in 1..pos : ValidHeaderLine(Stripped(k))}
\* the n-th line of the set V of line numbers
NthOf(V, n) == CHOOSE h \in V : Cardinality({x \in V : x < h}) = n - 1
\* the lines read after line h up to the next line of V
FollowersOf(V, h) == {k \in (h + 1)..pos : \A x \in V : x > h => k < x}
\* the line breaks in s
BreaksIn(s) == Cardinality({k \in 1..Len(s) : s[k] = "\n"})

\* C15: parse_file opens a Message only on a line that matches the header
\* pattern and has a valid calendar date-time; a line that does not match,
\* or a header-shaped line with an invalid date (day 32), is appended to the
\* currently open Message if there is one and is dropped if none is open;
\* so the Messages made are exactly one per valid header line, in input
\* order, and on every line of every file parse_line yields a Message or
\* None, so one of these three branches handles it (no line stops the scan).
C15_MessagePerValidHeader ==
    /\ [][(pc = "parse" /\ pos < Len(lines)) =>
            IF ValidHeaderLine(RStripNewline(lines[pos + 1]))
            THEN /\ Len(heap') = Len(heap) + 1
                 /\ current_message' = Some(Len(heap) + 1)
                 /\ heap'[Len(heap) + 1].raw_line = RStripNewline(lines[pos + 1])
                 /\ SubSeq(heap', 1, Len(heap)) = heap
            ELSE IF current_message # None
            THEN /\ Len(heap') = Len(heap)
                 /\ \A r \in 1..Len(heap) :
                       IF Some(r) = current_message
                       THEN /\ heap'[r].text =
                                   heap[r].text \o <<"\n">> \o RStripNewline(lines[pos + 1])
                            /\ heap'[r].raw_line =
                                   heap[r].raw_line \o <<"\n">> \o RStripNewline(lines[pos + 1])
                            /\ heap'[r].user = heap[r].user
                            /\ heap'[r].timestamp = heap[r].timestamp
                       ELSE heap'[r] = heap[r]
                 /\ current_message' = current_message
                 /\ messages' = messages
            ELSE /\ heap' = heap
                 /\ messages' = messages
                 /\ current_message' = None]_vars
    /\ [](pc \in {"parse", "parse_done"} =>
            LET V == ValidHeadersRead
            IN  /\ Len(MessagesSoFar) = Cardinality(V)
                /\ \A n \in 1..Len(MessagesSoFar) :
                      LET h == NthOf(V, n)
                          m == heap[MessagesSoFar[n]]
                      IN  /\ SubSeq(m.raw_line, 1, Len(Stripped(h))) = Stripped(h)
                          /\ BreaksIn(m.raw_line) = Cardinality(FollowersOf(V, h))
                          /\ n > 1 => NthOf(V, n - 1) < h
                /\ pc = "parse_done" => pos = Len(lines))
    /\ [](pc = "parse" =>
            /\ pos <= Len(lines)
            /\ pos < Len(lines) =>
                  LET r == parse_line(Stripped(pos + 1))
                  IN  IF ValidHeaderLine(Stripped(pos + 1))
                      THEN /\ r # None
                           /\ DOMAIN Val(r) = {"timestamp", "user", "text", "raw_line"}
                      ELSE r = None)

\* C15's case: the file is read; a line was dropped before the first valid
\* header, a day-32 header line was appended to an open Message, and a later
\* valid header opened a second Message
C15_Witness ==
    /\ pc = "parse_done"
    /\ Len(messages) = 2
    /\ 1 \notin ValidHeadersRead
    /\ \E k \in 2..Len(lines) :
          /\ PatternMatch(Stripped(k)) # None
          /\ ~ValidHeaderLine(Stripped(k))
          /\ k \in FollowersOf(ValidHeadersRead, NthOf(ValidHeadersRead, 1))

(***************************************************************************)
(* Claim about the pipeline (SpecPipeline)                                 *)
(***************************************************************************)
\* the Messages parse_file makes of a transcript (none if processing raises)
ParsedOf(t) == IF t.ok THEN parse_file(t.lines) ELSE <<>>

\* the Messages parsed from the transcripts processed so far: the first
\* zip_index archives and, once the loop is left, the standalone file
RECURSIVE ParsedOfArchives(_)
ParsedOfArchives(n) ==
    IF n = 0 THEN <<>> ELSE ParsedOfArchives(n - 1) \o ParsedOf(zip_files[n])
ParsedSoFar ==
    ParsedOfArchives(zip_index) \o
        (IF pc # "archives" /\ standalone_chat # None
         THEN ParsedOf(Val(standalone_chat)) ELSE <<>>)

\* the filter would drop m: its text begins with the marker or holds a phrase
WouldDrop(m) == ~Authored(m)

\* the parsed Messages the filter keeps that fall in week key and, for
\* target = TRUE, are by the target user
KeptInWeek(key, target) ==
    Cardinality({k \in 1..Len(ParsedSoFar) :
        /\ ~WouldDrop(ParsedSoFar[k])
        /\ get_week_key(ParsedSoFar[k].timestamp) = key
        /\ target => ParsedSoFar[k].user = TARGET_USER})

\* C11: in the pipeline process_all_archives -> get_weekly_summaries, the
\* system-message filter runs on every parsed transcript (each archive and
\* the standalone file) before sorting and week bucketing: the combined list
\* holds exactly the parsed Messages the filter keeps, before and after the
\* sort; no Message the filter would drop is ever in a week bucket, and none
\* is counted in any total_message_count or target_message_count.
C11_FilteredBeforeBucketing ==
    /\ \A k \in 1..Len(all_messages) : ~WouldDrop(all_messages[k])
    /\ \A k \in 1..Len(ParsedSoFar) :
          Occurrences(ParsedSoFar[k], all_messages) =
              IF WouldDrop(ParsedSoFar[k]) THEN 0
              ELSE Occurrences(ParsedSoFar[k], ParsedSoFar)
    /\ Len(all_messages) =
           Cardinality({k \in 1..Len(ParsedSoFar) : ~WouldDrop(ParsedSoFar[k])})
    /\ pc \in {"group", "summaries", "summaries_done"} => messages = all_messages
    /\ \A key \in DOMAIN weeks :
          \A k \in 1..Len(weeks[key]) : ~WouldDrop(weeks[key][k])
    /\ \A key \in DOMAIN weeks_data :
          /\ weeks_data[key].total_message_count = KeptInWeek(key, FALSE)
          /\ weeks_data[key].target_message_count = KeptInWeek(key, TRUE)

\* C11's case: the summaries are returned for two weeks or more, and both an
\* archive and the standalone file held a Message of the target user that
\* the filter drops
C11_Witness ==
    /\ pc = "summaries_done"
    /\ Cardinality(DOMAIN weeks_data) >= 2
    /\ \E n \in 1..Len(zip_files) :
          \E k \in 1..Len(ParsedOf(zip_files[n])) :
              /\ WouldDrop(ParsedOf(zip_files[n])[k])
              /\ ParsedOf(zip_files[n])[k].user = TARGET_USER
    /\ standalone_chat # None
    /\ \E k \in 1..Len(ParsedOf(Val(standalone_chat))) :
          /\ WouldDrop(ParsedOf(Val(standalone_chat))[k])
          /\ ParsedOf(Val(standalone_chat))[k].user = TARGET_USER

====
